---- MODULE Spec2Model ----
(***************************************************************************)
(* A model of fetch_and_render.py: the paginated session fetch (fetch_v2), *)
(* the two normalizers (build_v1_df, build_v2_df), the section selection   *)
(* and layout fold of render_dashboard, and the control flow of main.      *)
(*                                                                         *)
(* JSON / Python values are tagged records; the tag is the field k.  A key *)
(* that a dict does not hold is the value Missing, so that d.get(key) and  *)
(* d.get(key, default) can be told apart from a key holding null.          *)
(***************************************************************************)
EXTENDS Integers, Sequences, FiniteSets, TLC

VARIABLES
    pc,             \* the control point of the run
    args,           \* argparse namespace: offline, email, discover
    v1_data,        \* main: the raw aggregate payload (or None)
    v2_data,        \* main: the raw session payload (or None)
    all_sessions,   \* fetch_v2: the accumulated session list
    offset,         \* fetch_v2: the offset of the next page request
    requests,       \* the offsets tesla.get was called with, in call order
    pages,          \* the session lists the successful requests yielded, in order
    failed,         \* whether a page request raised
    fallback,       \* get_charge_history_v2: "no" (not called), "ok", "raised"
    v1_df,          \* main: the aggregate table (or None)
    v2_df,          \* main: the session table (or None)
    cards,          \* render_dashboard: labels of the summary cards
    cards_html,     \* render_dashboard: "" or the cards container
    rate,           \* render_dashboard: the division of the single-session summary (or None)
    v1_pivot,       \* chart_v1_heatmap: the pivot handed to the figure (or None)
    v2_pivot,       \* chart_heatmap: the pivot handed to the figure (or None)
    sections,       \* render_dashboard: the (content, flag) fragments
    idx,            \* render_dashboard: index of the next fragment of the fold
    in_grid,        \* render_dashboard: the fold's state
    chart_blocks,   \* render_dashboard: the emitted blocks
    exit_msg,       \* the message of sys.exit, "" when it was not called
    written         \* whether output/dashboard.html was written

vars == <<pc, args, v1_data, v2_data, all_sessions, offset, requests, pages,
          failed, fallback, v1_df, v2_df, cards, sections, idx, in_grid,
          chart_blocks, exit_msg, written, cards_html, rate, v1_pivot, v2_pivot>>

(***************************************************************************)
(* Bounds of the model.                                                    *)
(***************************************************************************)
\* the longest data_points list the normalizer specification draws
MaxPoints == 2
\* the longest session list the normalizer specification draws
MaxSessions == 2
\* the number of page requests after which the model stops requesting
MaxPages == 3

(***************************************************************************)
(* Python values.                                                          *)
(***************************************************************************)
None == [k |-> "None"]
Missing == [k |-> "missing"]
Num(n) == [k |-> "num", n |-> n]
Str(s) == [k |-> "str", s |-> s]
List(items) == [k |-> "list", items |-> items]
\* an ISO-8601 timestamp string: wall-clock seconds `local` at UTC offset `off`
Iso(local, off) == [k |-> "iso", local |-> local, off |-> off]

\* bool(x) as `not x`, `x or y` and `if x` use it
Truthy(x) ==
    CASE x.k = "None" -> FALSE
      [] x.k = "missing" -> FALSE
      [] x.k = "num" -> x.n # 0
      [] x.k = "str" -> x.s # ""
      [] x.k = "list" -> x.items # <<>>
      [] x.k = "v1" -> x.charging_history_graph # Missing
      [] x.k = "v2" -> x.data # Missing
      [] OTHER -> TRUE

\* d.get(key): the value under the key, None when the dict does not hold it
Get(v) == IF v = Missing THEN None ELSE v
\* d.get(key, default)
GetOr(v, default) == IF v = Missing THEN default ELSE v

\* float(x or 0)
FloatOr0(x) == IF Truthy(x) THEN x.n ELSE 0

\* pd.to_datetime(s) / pd.to_datetime(s, utc=True): the instant, in seconds,
\* that the string denotes; the wall-clock time less its UTC offset
to_datetime(s) == s.local - s.off

RECURSIVE SeqsUpTo(_, _)
\* the sequences over S of length at most n
SeqsUpTo(S, n) ==
    IF n = 0 THEN {<<>>}
    ELSE LET shorter == SeqsUpTo(S, n - 1)
         IN  shorter \cup {Append(s, x) : s \in shorter, x \in S}

RECURSIVE Concat(_)
\* the concatenation of a sequence of sequences
Concat(ss) == IF ss = <<>> THEN <<>> ELSE Concat(SubSeq(ss, 1, Len(ss) - 1)) \o ss[Len(ss)]

\* the number of positions i with s[i] = x
Count(s, x) == Cardinality({i \in 1..Len(s) : s[i] = x})

\* whether two sequences hold the same elements the same number of times
IsPermutation(s, t) ==
    /\ Len(s) = Len(t)
    /\ \A i \in 1..Len(s) : Count(s, s[i]) = Count(t, s[i])

(***************************************************************************)
(* DataFrames: None, or a table with its rows in index order.              *)
(***************************************************************************)
DataFrame(rows) == [k |-> "df", rows |-> rows]
IsNone(x) == x.k = "None"
\* df.empty
Empty(df) == df.rows = <<>>
\* `df is not None and not df.empty`
HasRows(df) == ~IsNone(df) /\ ~Empty(df)
\* len(df), 0 for None as main prints it
NRows(df) == IF IsNone(df) THEN 0 ELSE Len(df.rows)

(***************************************************************************)
(* build_v1_df.  A data point is [seconds, values]: `seconds` stands for   *)
(* dp["timestamp"]["timestamp"]["seconds"], Missing when any dict on that  *)
(* path lacks its key; a value is [raw_value].  Raw values are watt-hours. *)
(***************************************************************************)
\* float(vals[i].get("raw_value", 0) or 0) / 1000.0 if len(vals) > i else 0
channel(vals, i) ==
    IF Len(vals) > i THEN FloatOr0(GetOr(vals[i + 1].raw_value, Num(0))) \div 1000 ELSE 0

\* datetime.fromtimestamp(epoch, tz=utc).date(), as a day number
date_of(epoch) == epoch \div 86400

\* a variant that skips a data point only when it has no epoch at all
v1_skipped_if_absent(dp) == Get(dp.seconds) = None

\* `if not epoch: continue`
v1_skipped(dp) == ~Truthy(Get(dp.seconds))

\* the row appended for one data point
v1_row(dp) ==
    LET vals == GetOr(dp.values, List(<<>>)).items
    IN  [date |-> date_of(Get(dp.seconds).n),
         total_kwh |-> channel(vals, 0),
         home_kwh |-> channel(vals, 1),
         supercharger_kwh |-> channel(vals, 2),
         other_kwh |-> channel(vals, 3)]

\* a data point the loop does not skip
v1_kept(dp) == ~v1_skipped(dp)

\* the loop over data_points: a row for each data point that is not skipped
v1_rows(dps) ==
    LET kept == SelectSeq(dps, v1_kept)
    IN  [i \in 1..Len(kept) |-> v1_row(kept[i])]

build_v1_df(v1) ==
    LET graph == GetOr(v1.charging_history_graph, [k |-> "graph", data_points |-> Missing])
        data_points == IF graph.k = "graph" THEN GetOr(graph.data_points, List(<<>>)).items
                       ELSE <<>>
    IN  DataFrame(v1_rows(data_points))

(***************************************************************************)
(* build_v2_df.  A session is [chargeStartDateTime, chargeStopDateTime,    *)
(* fees, siteLocationName]; a fee is [feeType, usageBase, totalDue].       *)
(***************************************************************************)
\* `if not started: continue`
v2_skipped(s) == ~Truthy(Get(s.chargeStartDateTime))

\* dur_min: (t1 - t0).total_seconds() / 60.0 when both are truthy, else 0.0
duration_min(started, stopped) ==
    IF Truthy(started) /\ Truthy(stopped)
    THEN (to_datetime(stopped) - to_datetime(started)) \div 60
    ELSE 0

RECURSIVE charging_fee_last(_)
\* a variant without the `break`: the last CHARGING fee wins
charging_fee_last(fees) ==
    IF fees = <<>> THEN <<0, 0>>
    ELSE IF Get(fees[Len(fees)].feeType) = Str("CHARGING")
         THEN <<FloatOr0(GetOr(fees[Len(fees)].usageBase, Num(0))),
                FloatOr0(GetOr(fees[Len(fees)].totalDue, Num(0)))>>
         ELSE charging_fee_last(SubSeq(fees, 1, Len(fees) - 1))

RECURSIVE charging_fee(_)
\* the loop over fees: <<energy, cost>> of the first CHARGING fee, else zeros
charging_fee(fees) ==
    IF fees = <<>> THEN <<0, 0>>
    ELSE IF Get(fees[1].feeType) = Str("CHARGING")
         THEN <<FloatOr0(GetOr(fees[1].usageBase, Num(0))),
                FloatOr0(GetOr(fees[1].totalDue, Num(0)))>>
         ELSE charging_fee(Tail(fees))

\* s.get("siteLocationName") or "Unknown"
location_of(s) ==
    IF Truthy(Get(s.siteLocationName)) THEN s.siteLocationName.s ELSE "Unknown"

\* the row appended for one session
v2_row(s) ==
    LET started == Get(s.chargeStartDateTime)
        stopped == Get(s.chargeStopDateTime)
        fee == charging_fee(GetOr(s.fees, List(<<>>)).items)
    IN  [start |-> to_datetime(started),
         duration_min |-> duration_min(started, stopped),
         kwh |-> fee[1],
         cost |-> fee[2],
         location |-> location_of(s)]

\* a session the loop does not skip
v2_kept(s) == ~v2_skipped(s)

\* the loop over sessions: a row for each session that is not skipped
v2_rows(ss) ==
    LET kept == SelectSeq(ss, v2_kept)
    IN  [i \in 1..Len(kept) |-> v2_row(kept[i])]

\* `v2 if isinstance(v2, list) else v2.get("data", [])`
v2_sessions(v2) == IF v2.k = "list" THEN v2.items ELSE GetOr(v2.data, List(<<>>)).items

\* the rows in ascending order of start, rows of equal start in input order
stable_sort(rows) ==
    LET n == Len(rows)
        before(j, i) == rows[j].start < rows[i].start
                          \/ (rows[j].start = rows[i].start /\ j < i)
        rank == [i \in 1..n |-> 1 + Cardinality({j \in 1..n : before(j, i)})]
    IN  [p \in 1..n |-> rows[CHOOSE i \in 1..n : rank[i] = p]]

\* the orders a sequence can be put in
orders(g) == {[i \in 1..Len(g) |-> g[f[i]]] : f \in Permutations(1..Len(g))}

RECURSIVE tie_orders(_)
\* a sorted sequence with each run of equal starts in every order
tie_orders(s) ==
    LET ties == {i \in 1..(Len(s) - 1) : s[i].start = s[i + 1].start}
    IN  IF ties = {} THEN {s}
        ELSE LET first == CHOOSE i \in ties : \A j \in ties : i <= j
                 n == Cardinality({i \in 1..Len(s) : s[i].start = s[first].start})
             IN  {SubSeq(s, 1, first - 1) \o g \o r :
                     g \in orders(SubSeq(s, first, first + n - 1)),
                     r \in tie_orders(SubSeq(s, first + n, Len(s)))}

\* a variant that sorts latest first
sort_descending(rows) ==
    {[i \in 1..Len(s) |-> s[Len(s) + 1 - i]] : s \in tie_orders(stable_sort(rows))}

\* df.sort_values("start") and reset_index(drop=True).  The default sort is
\* not stable: rows of equal start may come out in any order, so this is the
\* set of the tables it can leave.
sort_values(rows) == tie_orders(stable_sort(rows))

\* the tables build_v2_df can return
build_v2_df(v2) ==
    LET rows == v2_rows(v2_sessions(v2))
    IN  IF rows = <<>> THEN {DataFrame(rows)}
        ELSE {DataFrame(sorted) : sorted \in sort_values(rows)}

(***************************************************************************)
(* The payloads the normalizer specification draws.  Sessions vary their   *)
(* times with the fees fixed, or their fees and location with the times    *)
(* fixed: build_v2_df reads the two groups of fields independently.        *)
(***************************************************************************)
Value(raw) == [raw_value |-> raw]
ValueVectors ==
    {<<Value(Num(5000)), Value(Num(3000)), Value(Num(2000)), Value(Num(0))>>,
     <<Value(Num(-1000)), Value(Missing), Value(None), Value(Num(1000))>>}
ValueFields == {Missing} \cup {List(SubSeq(v, 1, n)) : v \in ValueVectors, n \in 0..4}
Epochs == {Missing, Num(0), Num(90000), Num(259200)}
DataPoints == {[k |-> "dp", seconds |-> e, values |-> v] : e \in Epochs, v \in ValueFields}
Graph(dps) == [k |-> "graph", data_points |-> dps]
V1(graph) == [k |-> "v1", charging_history_graph |-> graph]
V1Universe ==
    {V1(Missing), V1(None), V1(Graph(Missing))}
        \cup {V1(Graph(List(dps))) : dps \in SeqsUpTo(DataPoints, MaxPoints)}

Fee(type, usage, due) == [feeType |-> Str(type), usageBase |-> usage, totalDue |-> due]
Session(start, stop, fees, loc) ==
    [chargeStartDateTime |-> start, chargeStopDateTime |-> stop,
     fees |-> fees, siteLocationName |-> loc]
\* 01:00Z written at +01:00; 02:00Z written at -01:00; 02:00Z written at +00:00
T1 == Iso(7200, 3600)
T2 == Iso(3600, -3600)
T3 == Iso(7200, 0)
PlainFees == List(<<Fee("CHARGING", Num(10), Num(5))>>)
FeeFields ==
    {Missing, List(<<>>), PlainFees,
     List(<<Fee("PARKING", Num(7), Num(2))>>),
     List(<<Fee("PARKING", Num(7), Num(2)), Fee("CHARGING", Num(10), Num(5))>>),
     List(<<Fee("CHARGING", Num(10), Num(5)), Fee("CHARGING", Num(20), Num(8))>>),
     List(<<Fee("CHARGING", None, Missing)>>),
     List(<<Fee("CHARGING", Num(-3), Num(-1))>>)}
Sessions ==
    {Session(start, stop, PlainFees, Str("A")) :
        start \in {Missing, Str(""), T1, T2, T3}, stop \in {Missing, None, T1, T2}}
    \cup {Session(T1, T2, fees, Str("A")) : fees \in FeeFields}
    \cup {Session(T1, T2, PlainFees, loc) : loc \in {Missing, Str("")}}
V2Dict(data) == [k |-> "v2", data |-> data]
V2Universe ==
    {List(ss) : ss \in SeqsUpTo(Sessions, MaxSessions)}
        \cup {V2Dict(Missing)}
        \cup {V2Dict(List(ss)) : ss \in SeqsUpTo(Sessions, 1)}

(***************************************************************************)
(* The normalizer specification: one payload is drawn and the normalizer   *)
(* of its kind is applied to it.                                           *)
(***************************************************************************)
Idle ==
    /\ args = [offline |-> TRUE, email |-> FALSE, discover |-> FALSE]
    /\ all_sessions = <<>>
    /\ offset = 0
    /\ requests = <<>>
    /\ pages = <<>>
    /\ failed = FALSE
    /\ fallback = "no"
    /\ cards = <<>>
    /\ cards_html = Str("")
    /\ rate = None
    /\ v1_pivot = None
    /\ v2_pivot = None
    /\ sections = <<>>
    /\ idx = 1
    /\ in_grid = FALSE
    /\ chart_blocks = <<>>
    /\ exit_msg = ""
    /\ written = FALSE

\* a payload of each kind with one record that lacks its identity field
SampleV1 ==
    V1(Graph(List(<<[k |-> "dp", seconds |-> Num(0), values |-> Missing],
                    [k |-> "dp", seconds |-> Num(90000), values |-> Missing]>>)))
SampleV2 ==
    List(<<Session(Str(""), T1, PlainFees, Str("A")), Session(T1, T2, PlainFees, Str("A"))>>)

InitNorm ==
    /\ pc = "norm"
    /\ \/ v1_data \in V1Universe /\ v2_data = SampleV2
       \/ v1_data = SampleV1 /\ v2_data \in V2Universe
    /\ v1_df = None
    /\ v2_df = None
    /\ Idle

CallBuildV1 ==
    /\ pc = "norm"
    /\ v1_df' = build_v1_df(v1_data)
    /\ pc' = "v1_built"
    /\ UNCHANGED <<cards_html, rate, v1_pivot, v2_pivot, args, v1_data, v2_data, all_sessions, offset, requests, pages,
                   failed, fallback, v2_df, cards, sections, idx, in_grid,
                   chart_blocks, exit_msg, written>>

CallBuildV2 ==
    /\ pc = "v1_built"
    /\ v2_df' \in build_v2_df(v2_data)
    /\ pc' = "built"
    /\ UNCHANGED <<cards_html, rate, v1_pivot, v2_pivot, args, v1_data, v2_data, all_sessions, offset, requests, pages,
                   failed, fallback, v1_df, cards, sections, idx, in_grid,
                   chart_blocks, exit_msg, written>>

NextNorm == CallBuildV1 \/ CallBuildV2

SpecNorm == InitNorm /\ [][NextNorm]_vars

(***************************************************************************)
(* fetch_v2: the page loop and the fallback.                               *)
(***************************************************************************)
page_size == 50

\* the sizes of the pages the server is taken to answer with
PageSizes == {0, 1, 30, page_size}

\* the record the server holds at a position, latest first
ServerSession(id, startless) ==
    Session(IF startless THEN Missing ELSE Iso((1000 - id) * 60, 0),
            Iso((1030 - id) * 60, 0), PlainFees, Str("A"))
ServerPage(off, n, startless) == [i \in 1..n |-> ServerSession(off + i, startless)]

\* the shapes a response comes in: the bare list, {"data": [...]},
\* {"data": {"data": [...]}}, and a dict without "data"
Resp(data) == [k |-> "resp", data |-> data]
Responses(off) ==
    {Resp(Missing)}
        \cup UNION {{List(p), Resp(List(p)), Resp(Resp(List(p)))} :
                     p \in {ServerPage(off, n, startless) : n \in PageSizes, startless \in BOOLEAN}}

\* data = resp.get("data", resp) if isinstance(resp, dict) else resp
\* sessions = data if isinstance(data, list) else data.get("data", [])
unwrap(resp) ==
    LET data == IF resp.k = "resp" THEN GetOr(resp.data, resp) ELSE resp
    IN  IF data.k = "list" THEN data.items ELSE GetOr(data.data, List(<<>>)).items

\* a variant that assigns the page instead of extending the list with it
extend_replaces(all, sessions) == sessions

\* all_sessions.extend(sessions)
extend(all, sessions) == all \o sessions

\* a variant that stops the loop on an empty page only
short_page_if_empty(sessions) == Len(sessions) = 0

\* `if len(sessions) < page_size: break`
short_page(sessions) == Len(sessions) < page_size

\* offset += page_size
next_offset(off) == off + page_size

\* a variant that tries the fallback whatever was accumulated
always_fallback(all) == TRUE

\* `if not all_sessions:` the fallback is tried
need_fallback(all) == all = <<>>

\* what get_charge_history_v2 is taken to return when it does not raise
FallbackResults ==
    {List(<<>>), List(ServerPage(0, 1, FALSE)), List(ServerPage(0, 1, TRUE)),
     V2Dict(List(ServerPage(0, 30, FALSE))), V2Dict(Missing)}

(***************************************************************************)
(* main and the collaborators it calls.                                    *)
(***************************************************************************)
\* what data/ can hold for load_latest, and what get_charge_history returns
EmptyV1 == V1(Graph(List(<<[k |-> "dp", seconds |-> Num(0), values |-> Missing]>>)))
CachedV1 == {None, V1(Missing), EmptyV1, SampleV1}
LiveV1 == CachedV1 \ {None}
CachedV2 ==
    {None, List(<<>>), V2Dict(Missing), List(ServerPage(0, 1, TRUE)),
     List(ServerPage(0, 1, FALSE)), SampleV2, List(ServerPage(0, 2, FALSE)),
     V2Dict(List(ServerPage(0, 2, FALSE)))}

Init ==
    /\ pc = "main"
    /\ args \in [offline : BOOLEAN, email : BOOLEAN, discover : BOOLEAN]
    /\ v1_data = None
    /\ v2_data = None
    /\ v1_df = None
    /\ v2_df = None
    /\ all_sessions = <<>>
    /\ offset = 0
    /\ requests = <<>>
    /\ pages = <<>>
    /\ failed = FALSE
    /\ fallback = "no"
    /\ cards = <<>>
    /\ cards_html = Str("")
    /\ rate = None
    /\ v1_pivot = None
    /\ v2_pivot = None
    /\ sections = <<>>
    /\ idx = 1
    /\ in_grid = FALSE
    /\ chart_blocks = <<>>
    /\ exit_msg = ""
    /\ written = FALSE

\* main, --offline: both payloads are loaded from data/
MainOffline ==
    /\ pc = "main"
    /\ args.offline
    /\ v1_data' \in CachedV1
    /\ v2_data' \in CachedV2
    /\ IF ~Truthy(v1_data') /\ ~Truthy(v2_data')
       THEN pc' = "exit" /\ exit_msg' = "No cached data found in data/. Run online first."
       ELSE pc' = "build" /\ exit_msg' = exit_msg
    /\ UNCHANGED <<cards_html, rate, v1_pivot, v2_pivot, args, all_sessions, offset, requests, pages, failed, fallback,
                   v1_df, v2_df, cards, sections, idx, in_grid, chart_blocks, written>>

\* main, online without --email
MainNoEmail ==
    /\ pc = "main"
    /\ ~args.offline
    /\ ~args.email
    /\ pc' = "exit"
    /\ exit_msg' = "Provide --email or use --offline."
    /\ UNCHANGED <<cards_html, rate, v1_pivot, v2_pivot, args, v1_data, v2_data, all_sessions, offset, requests, pages,
                   failed, fallback, v1_df, v2_df, cards, sections, idx, in_grid,
                   chart_blocks, written>>

\* fetch_v1: None without a vehicle or on an HTTPError, else the payload
FetchV1 ==
    /\ pc = "main"
    /\ ~args.offline
    /\ args.email
    /\ v1_data' \in {None} \cup LiveV1
    /\ pc' = "fetch_v2"
    /\ UNCHANGED <<cards_html, rate, v1_pivot, v2_pivot, args, v2_data, all_sessions, offset, requests, pages, failed,
                   fallback, v1_df, v2_df, cards, sections, idx, in_grid,
                   chart_blocks, exit_msg, written>>

\* fetch_v2 up to the loop: None without a vehicle
FetchV2Begin ==
    /\ pc = "fetch_v2"
    /\ \/ /\ v2_data' = None
          /\ pc' = "fetched"
       \/ /\ v2_data' = v2_data
          /\ pc' = "page"
    /\ all_sessions' = <<>>
    /\ offset' = 0
    /\ UNCHANGED <<cards_html, rate, v1_pivot, v2_pivot, args, v1_data, requests, pages, failed, fallback, v1_df, v2_df,
                   cards, sections, idx, in_grid, chart_blocks, exit_msg, written>>

\* one turn of the `while True` loop: the request and what is done with it
PageRequest ==
    /\ pc = "page"
    /\ Len(requests) < MaxPages
    /\ requests' = Append(requests, offset)
    /\ \/ \* tesla.get raised
          /\ failed' = TRUE
          /\ pc' = "paged"
          /\ UNCHANGED <<pages, all_sessions, offset>>
       \/ \E resp \in Responses(offset) :
             LET sessions == unwrap(resp)
             IN  /\ pages' = Append(pages, sessions)
                 /\ failed' = failed
                 /\ IF sessions = <<>>
                    THEN pc' = "paged" /\ UNCHANGED <<all_sessions, offset>>
                    ELSE /\ all_sessions' = extend(all_sessions, sessions)
                         /\ IF short_page(sessions)
                            THEN pc' = "paged" /\ offset' = offset
                            ELSE pc' = "page" /\ offset' = next_offset(offset)
    /\ UNCHANGED <<cards_html, rate, v1_pivot, v2_pivot, args, v1_data, v2_data, fallback, v1_df, v2_df, cards, sections,
                   idx, in_grid, chart_blocks, exit_msg, written>>

\* fetch_v2 after the loop: the fallback when nothing was accumulated, then
\* the list is saved and returned
FetchV2Finish ==
    /\ pc = "paged"
    /\ pc' = "fetched"
    /\ IF need_fallback(all_sessions)
       THEN \/ \* get_charge_history_v2 raised: return None
               /\ fallback' = "raised"
               /\ v2_data' = None
               /\ all_sessions' = all_sessions
            \/ \E r \in FallbackResults :
                  /\ fallback' = "ok"
                  /\ all_sessions' = IF r.k = "v2" THEN GetOr(r.data, List(<<>>)).items
                                     ELSE r.items
                  /\ v2_data' = List(all_sessions')
       ELSE /\ fallback' = fallback
            /\ all_sessions' = all_sessions
            /\ v2_data' = List(all_sessions)
    /\ UNCHANGED <<cards_html, rate, v1_pivot, v2_pivot, args, v1_data, offset, requests, pages, failed, v1_df, v2_df,
                   cards, sections, idx, in_grid, chart_blocks, exit_msg, written>>

\* main, --discover: the payloads are printed and main returns
Discover ==
    /\ pc = "fetched"
    /\ args.discover
    /\ pc' = "done"
    /\ UNCHANGED <<cards_html, rate, v1_pivot, v2_pivot, args, v1_data, v2_data, all_sessions, offset, requests, pages,
                   failed, fallback, v1_df, v2_df, cards, sections, idx, in_grid,
                   chart_blocks, exit_msg, written>>

\* a variant that exits whenever the session table has no row
no_session_data(d1, d2) == ~HasRows(d2)

\* a variant that tests the tables for None only, not for emptiness
both_none(d1, d2) == IsNone(d1) /\ IsNone(d2)

\* `(v1_df is None or v1_df.empty) and (v2_df is None or v2_df.empty)`
no_usable_data(d1, d2) == ~HasRows(d1) /\ ~HasRows(d2)

\* main: the tables are built, and the run exits when neither has a row
BuildFrames ==
    /\ pc = "build" \/ (pc = "fetched" /\ ~args.discover)
    /\ v1_df' = IF Truthy(v1_data) THEN build_v1_df(v1_data) ELSE None
    /\ v2_df' \in IF Truthy(v2_data) THEN build_v2_df(v2_data) ELSE {None}
    /\ IF no_usable_data(v1_df', v2_df')
       THEN pc' = "exit" /\ exit_msg' = "No usable data in either V1 or V2 response."
       ELSE pc' = "render" /\ exit_msg' = exit_msg
    /\ UNCHANGED <<cards_html, rate, v1_pivot, v2_pivot, args, v1_data, v2_data, all_sessions, offset, requests, pages,
                   failed, fallback, cards, sections, idx, in_grid, chart_blocks,
                   written>>

(***************************************************************************)
(* render_dashboard: cards, section selection and the layout fold.         *)
(***************************************************************************)
\* a (content, flag) pair of `sections`; the flag None is written "None"
Fragment(content, flag) == [content |-> content, flag |-> flag]

\* a variant that adds the cost card for any session table, empty or not
summary_cards_for_any_table(d1, d2) ==
    (IF HasRows(d1)
     THEN <<"Total (31d)", "Daily Avg", "Charging Days", "Peak Day", "Supercharger">>
     ELSE <<>>)
    \o (IF ~IsNone(d2) THEN <<"SC Cost">> ELSE <<>>)

\* the labels of the summary cards, in order
summary_cards(d1, d2) ==
    (IF HasRows(d1)
     THEN <<"Total (31d)", "Daily Avg", "Charging Days", "Peak Day", "Supercharger">>
     ELSE <<>>)
    \o (IF HasRows(d2) THEN <<"SC Cost">> ELSE <<>>)

\* `if v1_df is not None and not v1_df.empty:` Overview and Trends
aggregate_sections(d1) ==
    IF HasRows(d1)
    THEN <<Fragment("<h2>Overview - Last 31 Days</h2>", "grid-2"),
           Fragment("chart_daily_bar", "None"),
           Fragment("chart_source_donut", "None"),
           Fragment("<h2>Trends & Patterns</h2>", "grid-2"),
           Fragment("chart_cumulative", "None"),
           Fragment("chart_rolling_avg", "None"),
           Fragment("chart_dow_pattern", "None"),
           Fragment("chart_source_stacked_area", "None"),
           Fragment("chart_v1_heatmap", "full")>>
    ELSE <<>>

\* the fragments of the Supercharger Analysis section
paired_sections ==
    <<Fragment("<h2>Supercharger Analysis</h2>", "grid-2"),
      Fragment("chart_energy_timeline", "None"),
      Fragment("chart_cost_timeline", "None"),
      Fragment("chart_duration_histogram", "None"),
      Fragment("chart_cost_efficiency", "None"),
      Fragment("chart_top_locations", "full"),
      Fragment("<span></span>", "grid-2"),
      Fragment("chart_heatmap", "None"),
      Fragment("chart_monthly_trend", "None")>>

\* the fragment of the single-session summary
summary_section == <<Fragment("<h2>Latest Supercharger Session</h2>", "full")>>

\* a variant that draws the paired charts from one row on
session_sections_from_one(d2) == IF HasRows(d2) THEN paired_sections ELSE <<>>

\* the paired charts for two rows or more, the single-session summary for one
session_sections(d2) ==
    IF HasRows(d2) /\ Len(d2.rows) >= 2 THEN paired_sections
    ELSE IF HasRows(d2) THEN summary_section
         ELSE <<>>

\* an element of chart_blocks: "</div>", a heading, '<div class="grid">',
\* '<div class="chart-full">..</div>' or '<div class="chart">..</div>'
Block(tag, content) == [tag |-> tag, content |-> content]

\* a variant whose full-width branch closes the grid but leaves in_grid set
layout_step_leaves_grid(grid, blocks, f) ==
    CASE f.flag = "grid-2" ->
            [in_grid |-> TRUE,
             blocks |-> (IF grid THEN Append(blocks, Block("close", "")) ELSE blocks)
                          \o <<Block("heading", f.content), Block("open", "")>>]
      [] f.flag = "full" ->
            [in_grid |-> grid,
             blocks |-> Append(IF grid THEN Append(blocks, Block("close", "")) ELSE blocks,
                               Block("chart-full", f.content))]
      [] OTHER ->
            [in_grid |-> grid, blocks |-> Append(blocks, Block("chart", f.content))]

\* the body of `for content, flag in sections:` as (in_grid, chart_blocks)
layout_step(grid, blocks, f) ==
    CASE f.flag = "grid-2" ->
            [in_grid |-> TRUE,
             blocks |-> (IF grid THEN Append(blocks, Block("close", "")) ELSE blocks)
                          \o <<Block("heading", f.content), Block("open", "")>>]
      [] f.flag = "full" ->
            [in_grid |-> FALSE,
             blocks |-> Append(IF grid THEN Append(blocks, Block("close", "")) ELSE blocks,
                               Block("chart-full", f.content))]
      [] OTHER ->
            [in_grid |-> grid, blocks |-> Append(blocks, Block("chart", f.content))]

\* a float64 quotient: an exact ratio, or nan / inf for a zero divisor
Ratio(num, den) == [k |-> "ratio", num |-> num, den |-> den]
NaN == [k |-> "nan"]
Inf(sign) == [k |-> "inf", sign |-> sign]
divide(a, b) ==
    IF b # 0 THEN Ratio(a, b)
    ELSE IF a = 0 THEN NaN
         ELSE Inf(IF a > 0 THEN 1 ELSE -1)

(***************************************************************************)
(* The two day-of-week heatmaps.  A pivot is its row labels, its column    *)
(* labels and pivot.values as a list of rows.                              *)
(***************************************************************************)
Pivot(index, columns, values) ==
    [k |-> "pivot", index |-> index, columns |-> columns, values |-> values]

\* the group keys in ascending order, as groupby and pivot_table sort them
SortedSeq(S) ==
    [i \in 1..Cardinality(S) |-> CHOOSE x \in S : Cardinality({y \in S : y < x}) = i - 1]

\* the position of a label in an axis, 0 when the axis lacks it
IndexOf(axis, x) ==
    IF \E i \in 1..Len(axis) : axis[i] = x THEN CHOOSE i \in 1..Len(axis) : axis[i] = x
    ELSE 0

\* list(range(n))
Range(n) == [i \in 1..n |-> i - 1]

\* .dt.dayofweek of a day number, Monday = 0: 1970-01-01 was a Thursday
dayofweek(day) == (day + 3) % 7

\* .dt.hour of a UTC instant
hour(t) == (t \div 3600) % 24

\* .dt.isocalendar().week of a day number of 1970, whose ISO week 1 began on
\* Monday 1969-12-29
isoweek(day) == ((day + 3) \div 7) + 1

\* df2.groupby(["dow", "hour"]).size().unstack(fill_value=0)
size_unstack(rows) ==
    LET dow(i) == dayofweek(rows[i].start \div 86400)
        dows == SortedSeq({dow(i) : i \in 1..Len(rows)})
        hours == SortedSeq({hour(rows[i].start) : i \in 1..Len(rows)})
    IN  Pivot(dows, hours,
              [r \in 1..Len(dows) |-> [c \in 1..Len(hours) |->
                  Cardinality({i \in 1..Len(rows) :
                                  dow(i) = dows[r] /\ hour(rows[i].start) = hours[c]})]])

\* .reindex(index=.., columns=.., fill_value=..)
reindex(p, index, columns, fill_value) ==
    Pivot(index, columns,
          [r \in 1..Len(index) |-> [c \in 1..Len(columns) |->
              IF IndexOf(p.index, index[r]) > 0 /\ IndexOf(p.columns, columns[c]) > 0
              THEN p.values[IndexOf(p.index, index[r])][IndexOf(p.columns, columns[c])]
              ELSE fill_value]])

\* chart_heatmap: the pivot whose values are the figure's z, against
\* x = list(range(24)) and y = the seven day names
chart_heatmap(df) == reindex(size_unstack(df.rows), Range(7), Range(24), 0)

RECURSIVE total_kwh_sum(_)
\* the sum of total_kwh over a list of rows
total_kwh_sum(rows) ==
    IF rows = <<>> THEN 0 ELSE rows[1].total_kwh + total_kwh_sum(Tail(rows))

\* pivot_table(index="dow", columns="week", values="total_kwh", fill_value=0):
\* the labels are the keys present, a cell is the mean (the default aggfunc)
\* of its rows, 0 without rows
pivot_table(rows) ==
    LET dows == SortedSeq({dayofweek(rows[i].date) : i \in 1..Len(rows)})
        weeks == SortedSeq({isoweek(rows[i].date) : i \in 1..Len(rows)})
        cell(d, w) ==
            LET in_cell(row) == dayofweek(row.date) = d /\ isoweek(row.date) = w
                group == SelectSeq(rows, in_cell)
            IN  IF group = <<>> THEN Ratio(0, 1)
                ELSE Ratio(total_kwh_sum(group), Len(group))
    IN  Pivot(dows, weeks,
              [r \in 1..Len(dows) |-> [c \in 1..Len(weeks) |-> cell(dows[r], weeks[c])]])

\* chart_v1_heatmap: the pivot whose values are the figure's z, against
\* x = the week labels of its columns and y = the seven day names
chart_v1_heatmap(df) == pivot_table(df.rows)

\* the document's cards container: "" for no cards, else the div of the cards
cards_container(labels) ==
    IF labels = <<>> THEN Str("")
    ELSE [k |-> "div", class |-> "cards", children |-> labels]

\* `s = v2_df.iloc[0]` and `s["cost"]/s["kwh"]` of the single-session summary:
\* the operands and the quotient, None when the summary is not built.  The
\* row's numbers are float64 scalars, whose division by zero gives nan or
\* inf (a Python float would raise ZeroDivisionError instead).
session_rate(d2) ==
    IF HasRows(d2) /\ ~(Len(d2.rows) >= 2)
    THEN [k |-> "rate", cost |-> d2.rows[1].cost, kwh |-> d2.rows[1].kwh,
          value |-> divide(d2.rows[1].cost, d2.rows[1].kwh)]
    ELSE None

\* render_dashboard up to the fold
RenderBegin ==
    /\ pc = "render"
    /\ cards' = summary_cards(v1_df, v2_df)
    /\ cards_html' = cards_container(summary_cards(v1_df, v2_df))
    /\ sections' = aggregate_sections(v1_df) \o session_sections(v2_df)
    /\ v1_pivot' = IF HasRows(v1_df) THEN chart_v1_heatmap(v1_df) ELSE None
    /\ v2_pivot' = IF HasRows(v2_df) /\ Len(v2_df.rows) >= 2 THEN chart_heatmap(v2_df)
                   ELSE None
    /\ rate' = session_rate(v2_df)
    /\ chart_blocks' = <<>>
    /\ in_grid' = FALSE
    /\ idx' = 1
    /\ pc' = "layout"
    /\ UNCHANGED <<args, v1_data, v2_data, all_sessions, offset, requests, pages,
                   failed, fallback, v1_df, v2_df, exit_msg, written>>

\* one turn of the fold
LayoutStep ==
    /\ pc = "layout"
    /\ idx <= Len(sections)
    /\ LET next == layout_step(in_grid, chart_blocks, sections[idx])
       IN  in_grid' = next.in_grid /\ chart_blocks' = next.blocks
    /\ idx' = idx + 1
    /\ UNCHANGED <<cards_html, rate, v1_pivot, v2_pivot, pc, args, v1_data, v2_data, all_sessions, offset, requests, pages,
                   failed, fallback, v1_df, v2_df, cards, sections, exit_msg, written>>

\* the fold's end, the document, and main writing it to dashboard.html
LayoutEnd ==
    /\ pc = "layout"
    /\ idx > Len(sections)
    /\ chart_blocks' = IF in_grid THEN Append(chart_blocks, Block("close", ""))
                       ELSE chart_blocks
    /\ written' = TRUE
    /\ pc' = "written"
    /\ UNCHANGED <<cards_html, rate, v1_pivot, v2_pivot, args, v1_data, v2_data, all_sessions, offset, requests, pages,
                   failed, fallback, v1_df, v2_df, cards, sections, idx, in_grid,
                   exit_msg>>

Next ==
    \/ MainOffline
    \/ MainNoEmail
    \/ FetchV1
    \/ FetchV2Begin
    \/ PageRequest
    \/ FetchV2Finish
    \/ Discover
    \/ BuildFrames
    \/ RenderBegin
    \/ LayoutStep
    \/ LayoutEnd

Spec == Init /\ [][Next]_vars

(***************************************************************************)
(* The rendering specification: render_dashboard applied to a pair of      *)
(* optional tables, each None or a table its normalizer builds.            *)
(***************************************************************************)
\* data points on Fri 1970-01-02 and Sun 1970-01-04 (ISO week 1) and on
\* Fri 1970-01-09 (ISO week 2)
RenderPoints ==
    {[k |-> "dp", seconds |-> Num(e), values |-> List(<<Value(Num(raw))>>)] :
        e \in {90000, 259200, 694800}, raw \in {5000, 3000}}
V1Tables ==
    {None} \cup {build_v1_df(V1(Graph(List(dps)))) : dps \in SeqsUpTo(RenderPoints, MaxPoints)}

\* sessions starting Thu 01:00Z, Thu 02:00Z and Fri 03:00Z
RenderSessions ==
    {Session(start, T2, fees, Str("A")) :
        start \in {T1, T3, Iso(97200, 0)},
        fees \in {PlainFees, Missing, List(<<Fee("PARKING", Num(7), Num(2))>>)}}
V2Tables ==
    {None}
        \cup UNION {build_v2_df(List(ss)) : ss \in SeqsUpTo(Sessions, 1)}
        \cup UNION {build_v2_df(List(ss)) : ss \in SeqsUpTo(RenderSessions, MaxSessions)}

\* one table of each kind with rows
SampleV1Table == build_v1_df(SampleV1)
SampleV2Tables == build_v2_df(SampleV2) \cup build_v2_df(List(ServerPage(0, 2, FALSE)))

InitRender ==
    /\ pc = "render"
    /\ v1_data = None
    /\ v2_data = None
    /\ \/ v1_df \in V1Tables /\ v2_df \in {None, DataFrame(<<>>)} \cup SampleV2Tables
       \/ v1_df \in {None, DataFrame(<<>>), SampleV1Table} /\ v2_df \in V2Tables
    /\ Idle

NextRender == RenderBegin \/ LayoutStep \/ LayoutEnd

SpecRender == InitRender /\ [][NextRender]_vars

(***************************************************************************)
(* The normalizers' claims, under SpecNorm.                                *)
(***************************************************************************)
\* the data points and the session records of the payloads drawn
InputPoints ==
    IF v1_data.k = "v1" /\ v1_data.charging_history_graph.k = "graph"
          /\ v1_data.charging_history_graph.data_points.k = "list"
    THEN v1_data.charging_history_graph.data_points.items
    ELSE <<>>
InputSessions ==
    CASE v2_data.k = "list" -> v2_data.items
      [] v2_data.k = "v2" /\ v2_data.data.k = "list" -> v2_data.data.items
      [] OTHER -> <<>>
\* a data point with an epoch that is a number other than zero
HasEpoch(dp) == dp.seconds.k = "num" /\ dp.seconds.n # 0
\* a session with a start timestamp
HasStart(s) == s.chargeStartDateTime.k = "iso"

\* C8: each normalizer returns exactly one row per record that has its
\* identity field, in input order for the aggregate table: a data point
\* without an epoch (missing or zero) and a session without a start are
\* dropped, every other record is kept.
C8_DropsOnlyRecordsWithoutIdentity ==
    /\ pc \in {"v1_built", "built"} =>
          LET kept == SelectSeq(InputPoints, HasEpoch)
          IN  /\ Len(v1_df.rows) = Len(kept)
              /\ \A i \in 1..Len(kept) : v1_df.rows[i].date * 86400 <= kept[i].seconds.n
                                         /\ kept[i].seconds.n < (v1_df.rows[i].date + 1) * 86400
    /\ pc = "built" =>
          LET kept == SelectSeq(InputSessions, HasStart)
          IN  /\ Len(v2_df.rows) = Len(kept)
              /\ \A i \in 1..Len(kept) :
                    \E j \in 1..Len(kept) :
                        v2_df.rows[j].start = kept[i].chargeStartDateTime.local
                                                - kept[i].chargeStartDateTime.off

\* both normalizers have run, each on a payload from which it dropped a record
\* and kept another
C8_Witness ==
    /\ pc = "built"
    /\ Len(InputPoints) = 2 /\ Len(v1_df.rows) = 1
    /\ Len(InputSessions) = 2 /\ Len(v2_df.rows) = 1
    /\ \E i \in 1..2 : InputPoints[i].seconds = Num(0)
    /\ \E i \in 1..2 : InputSessions[i].chargeStartDateTime = Missing

\* C9: the rows build_v2_df returns are sorted non-decreasing by start and are
\* a permutation of the rows built from the records that have a start.
C9_SortedPermutation ==
    pc = "built" =>
        /\ \A i \in 1..Len(v2_df.rows) : \A j \in i..Len(v2_df.rows) :
              v2_df.rows[i].start <= v2_df.rows[j].start
        /\ IsPermutation(v2_df.rows, v2_rows(InputSessions))

\* two sessions given latest first (though their wall-clock strings ascend)
\* have been sorted
C9_Witness ==
    /\ pc = "built"
    /\ Len(InputSessions) = 2
    /\ Len(v2_df.rows) = 2
    /\ InputSessions[1].chargeStartDateTime = T2
    /\ InputSessions[2].chargeStartDateTime = T1
    /\ v2_df.rows[1].start < v2_df.rows[2].start

\* C10: every numeric field of every row is non-negative, whatever the raw
\* payload, and duration_min is 0 when the stop time is missing or equal to the
\* start time.
C10_NonNegativeFields ==
    /\ pc \in {"v1_built", "built"} =>
          \A i \in 1..Len(v1_df.rows) :
              /\ v1_df.rows[i].total_kwh >= 0
              /\ v1_df.rows[i].home_kwh >= 0
              /\ v1_df.rows[i].supercharger_kwh >= 0
              /\ v1_df.rows[i].other_kwh >= 0
    /\ pc = "built" =>
          /\ \A i \in 1..Len(v2_df.rows) :
                /\ v2_df.rows[i].duration_min >= 0
                /\ v2_df.rows[i].kwh >= 0
                /\ v2_df.rows[i].cost >= 0
          /\ Len(InputSessions) = 1 /\ Len(v2_df.rows) = 1
                /\ (~Truthy(Get(InputSessions[1].chargeStopDateTime))
                    \/ to_datetime(InputSessions[1].chargeStopDateTime) = v2_df.rows[1].start)
             => v2_df.rows[1].duration_min = 0

\* the fee items of a session, none when it has no fee list
FeeItems(s) == IF s.fees.k = "list" THEN s.fees.items ELSE <<>>
\* the number a fee field holds, 0 when it is absent or null
FeeNumber(x) == IF x.k = "num" THEN x.n ELSE 0
\* <<usageBase, totalDue>> of the first CHARGING item in list order, zeros if none
FirstChargingFee(s) ==
    LET charging == {i \in 1..Len(FeeItems(s)) : FeeItems(s)[i].feeType = Str("CHARGING")}
    IN  IF charging = {} THEN <<0, 0>>
        ELSE LET first == CHOOSE i \in charging : \A j \in charging : i <= j
             IN  <<FeeNumber(FeeItems(s)[first].usageBase), FeeNumber(FeeItems(s)[first].totalDue)>>

\* C11: each row's kwh and cost are those of the first fee item of its session
\* whose feeType is CHARGING, later items being ignored, and both are 0 when
\* the session has no such item or no fee list; a row is built either way.
C11_FirstChargingFee ==
    pc = "built" =>
        LET kept == SelectSeq(InputSessions, HasStart)
        IN  /\ Len(v2_df.rows) = Len(kept)
            /\ IsPermutation([i \in 1..Len(v2_df.rows) |-> <<v2_df.rows[i].kwh, v2_df.rows[i].cost>>],
                             [i \in 1..Len(kept) |-> FirstChargingFee(kept[i])])

\* a session with two CHARGING items gave the first one's numbers, and one
\* with a PARKING item only gave zeros
C11_Witness ==
    /\ pc = "built"
    /\ Len(InputSessions) = 2
    /\ Len(FeeItems(InputSessions[1])) = 2
    /\ FeeItems(InputSessions[1])[1] = Fee("CHARGING", Num(10), Num(5))
    /\ FeeItems(InputSessions[1])[2] = Fee("CHARGING", Num(20), Num(8))
    /\ FeeItems(InputSessions[2]) = <<Fee("PARKING", Num(7), Num(2))>>
    /\ Len(v2_df.rows) = 2
    /\ \E i \in 1..2 : v2_df.rows[i].kwh = 10 /\ v2_df.rows[i].cost = 5
    /\ \E i \in 1..2 : v2_df.rows[i].kwh = 0 /\ v2_df.rows[i].cost = 0

(***************************************************************************)
(* The claims about a run of main, under Spec.                             *)
(***************************************************************************)
\* fetch_v2 has returned from a call that reached the page loop
AfterPaging == requests # <<>> /\ pc \in {"fetched", "done", "exit", "render", "layout", "written"}
\* main has built the tables of a run that paged
AfterBuild == requests # <<>> /\ pc \in {"exit", "render", "layout", "written"}
\* the sizes of the pages fetched
PageLens == [i \in 1..Len(pages) |-> Len(pages[i])]

\* C1: the requests go to offsets 0, 50, 100, ...; no request follows a page
\* of fewer than 50 records; when no request fails, the accumulated list is
\* the concatenation of the pages in request order, the last of them being the
\* first short one; pages of 50, 50 and 30 records take exactly 3 requests
\* and give 130 sessions.
C1_PaginationConcatenatesUntilShortPage ==
    /\ \A i \in 1..Len(requests) : requests[i] = (i - 1) * 50
    /\ Len(requests) = Len(pages) + (IF failed THEN 1 ELSE 0)
    /\ \A i \in 1..(Len(pages) - 1) : Len(pages[i]) >= 50
    /\ pc = "page" /\ pages # <<>> => Len(pages[Len(pages)]) >= 50
    /\ ~failed /\ pc = "paged" =>
          /\ Len(pages[Len(pages)]) < 50
          /\ all_sessions = Concat(pages)
    /\ PageLens = <<50, 50, 30>> =>
          /\ pc # "page"
          /\ requests = <<0, 50, 100>>
          /\ fallback = "no" /\ Len(all_sessions) = 130

\* the loop has ended after pages of 50, 50 and 30 records
C1_Witness ==
    /\ pc = "paged"
    /\ ~failed
    /\ PageLens = <<50, 50, 30>>
    /\ Len(all_sessions) = 130

\* C2: a failed request is the last request; the accumulated list is then
\* the concatenation of the pages fetched before it, and when that is not
\* empty it is what fetch_v2 returns and what main normalizes.
C2_FailureKeepsPartialResult ==
    /\ [](failed =>
            /\ pc # "page"
            /\ Len(requests) = Len(pages) + 1
            /\ fallback = "no" => all_sessions = Concat(pages)
            /\ AfterPaging /\ pages # <<>> =>
                  /\ fallback = "no"
                  /\ v2_data = List(Concat(pages))
            /\ AfterBuild /\ pages # <<>> =>
                  /\ ~IsNone(v2_df)
                  /\ IsPermutation(v2_df.rows, v2_rows(Concat(pages))))
    /\ [][failed => requests' = requests]_vars

\* the third request failed, and the 100 sessions of the first two pages
\* were normalized and rendered
C2_Witness ==
    /\ failed
    /\ PageLens = <<50, 50>>
    /\ pc = "written"
    /\ NRows(v2_df) = 100

\* C3: the fallback is attempted exactly when the page loop ends with nothing
\* accumulated (an empty first page or a failed first request), never when a
\* session was accumulated, and the accumulated list is empty when it is
\* attempted.
C3_FallbackOnlyWhenNothingAccumulated ==
    /\ [](/\ fallback # "no" =>
                /\ Concat(pages) = <<>>
                /\ Len(requests) = 1
                /\ failed \/ pages = << <<>> >>
          /\ AfterPaging => (fallback # "no" <=> Concat(pages) = <<>>))
    /\ [][fallback = "no" /\ fallback' # "no" => pc = "paged" /\ all_sessions = <<>>]_vars

\* an empty first page was followed by a fallback that returned sessions
C3_Witness ==
    /\ pages = << <<>> >>
    /\ ~failed
    /\ fallback = "ok"
    /\ all_sessions # <<>>

\* C4 as stated: after a failed page request the accumulated pages are kept,
\* pagination stops and a fallback is attempted; if the fallback fails too
\* the session table is empty and a report is produced whenever the aggregate
\* table has data.
C4_FallbackAfterAnyFailure ==
    /\ failed => pc # "page"
    /\ failed /\ AfterPaging => fallback # "no"
    /\ fallback = "raised" => ~HasRows(v2_df)
    /\ fallback = "raised" /\ HasRows(v1_df) => pc \in {"render", "layout", "written"}

\* C4 as amended: after a failed page request the accumulated pages are kept
\* and pagination stops; the fallback is attempted only if nothing had been
\* accumulated; if it fails too, fetch_v2 returns None, the session table is
\* absent and a report is produced whenever the aggregate table has data.
C4_FallbackAfterFailureOnlyIfEmpty ==
    /\ failed => pc # "page"
    /\ failed /\ fallback = "no" => all_sessions = Concat(pages)
    /\ failed /\ AfterPaging => (fallback # "no" <=> pages = <<>>)
    /\ failed /\ AfterPaging /\ pages # <<>> => v2_data = List(Concat(pages))
    /\ fallback = "raised" => IsNone(v2_data) /\ IsNone(v2_df)
    /\ fallback = "raised" /\ HasRows(v1_df) =>
          /\ pc \in {"render", "layout", "written"}
          /\ exit_msg = ""
          /\ pc = "written" => written

\* the first request and the fallback both failed, and the report was written
\* from the aggregate table
C4_Witness ==
    /\ failed
    /\ fallback = "raised"
    /\ HasRows(v1_df)
    /\ pc = "written"
    /\ written

\* C5: the dashboard is rendered and written only if a table has a row; once
\* the tables are built with no row in either, or offline with no cached
\* payload, the run has exited with a message and rendered nothing.
C5_NoEmptyReport ==
    /\ pc \in {"render", "layout", "written"} \/ written \/ sections # <<>> \/ cards # <<>>
          => HasRows(v1_df) \/ HasRows(v2_df)
    /\ pc \in {"exit", "render", "layout", "written"} /\ ~HasRows(v1_df) /\ ~HasRows(v2_df)
          => pc = "exit"
    /\ args.offline /\ pc # "main" /\ ~Truthy(v1_data) /\ ~Truthy(v2_data) => pc = "exit"
    /\ pc = "exit" => exit_msg # "" /\ ~written /\ sections = <<>> /\ chart_blocks = <<>>
    /\ pc = "written" <=> written

\* both tables were built, neither has a row, and the run exited
C5_Witness ==
    /\ pc = "exit"
    /\ ~IsNone(v1_df) /\ Empty(v1_df)
    /\ ~IsNone(v2_df) /\ Empty(v2_df)
    /\ exit_msg = "No usable data in either V1 or V2 response."

\* whether `sections` holds a fragment of this content
Selected(content) == \E i \in 1..Len(sections) : sections[i].content = content
\* whether the document holds a block of this tag and content
Emitted(tag, content) == \E i \in 1..Len(chart_blocks) : chart_blocks[i] = Block(tag, content)

\* C6: Overview and Trends are emitted iff the aggregate table has rows, the
\* Supercharger Analysis section iff the session table has 2 rows or more,
\* the single-session summary iff it has exactly 1.
C6_SectionSelection ==
    /\ pc \in {"layout", "written"} =>
          /\ Selected("<h2>Overview - Last 31 Days</h2>") <=> HasRows(v1_df)
          /\ Selected("<h2>Trends & Patterns</h2>") <=> HasRows(v1_df)
          /\ Selected("<h2>Supercharger Analysis</h2>") <=> NRows(v2_df) >= 2
          /\ Selected("<h2>Latest Supercharger Session</h2>") <=> NRows(v2_df) = 1
          /\ Selected("chart_energy_timeline") <=> NRows(v2_df) >= 2
          /\ Selected("chart_monthly_trend") <=> NRows(v2_df) >= 2
    /\ pc = "written" =>
          /\ Emitted("heading", "<h2>Overview - Last 31 Days</h2>") <=> HasRows(v1_df)
          /\ Emitted("heading", "<h2>Trends & Patterns</h2>") <=> HasRows(v1_df)
          /\ Emitted("heading", "<h2>Supercharger Analysis</h2>") <=> NRows(v2_df) >= 2
          /\ Emitted("chart-full", "<h2>Latest Supercharger Session</h2>") <=> NRows(v2_df) = 1

\* a report with the single-session summary and no aggregate section
C6_Witness ==
    /\ pc = "written"
    /\ NRows(v2_df) = 1
    /\ ~HasRows(v1_df)
    /\ Emitted("chart-full", "<h2>Latest Supercharger Session</h2>")

\* the number of blocks of a tag, and of fragments of a flag
NBlocks(tag) == Cardinality({i \in 1..Len(chart_blocks) : chart_blocks[i].tag = tag})
NFragments(flag) == Cardinality({i \in 1..Len(sections) : sections[i].flag = flag})

RECURSIVE GridDepth(_)
\* the number of grids open after the blocks, -1 if a block is misplaced: a
\* grid opened in a grid or not after a heading, a close without an open grid,
\* a paired chart outside a grid, a heading or full-width block inside one
GridDepth(blocks) ==
    IF blocks = <<>> THEN 0
    ELSE LET front == SubSeq(blocks, 1, Len(blocks) - 1)
             d == GridDepth(front)
             tag == blocks[Len(blocks)].tag
         IN  CASE d < 0 -> -1
               [] d >= 0 /\ tag = "open" ->
                     IF d = 0 /\ front # <<>> /\ front[Len(front)].tag = "heading" THEN 1 ELSE -1
               [] d >= 0 /\ tag = "close" -> IF d = 1 THEN 0 ELSE -1
               [] d >= 0 /\ tag = "chart" -> IF d = 1 THEN 1 ELSE -1
               [] OTHER -> IF d = 0 THEN 0 ELSE -1

\* C7: for the fragment sequences render_dashboard builds, the fold emits
\* well-formed blocks: a heading is followed by a newly opened grid, no grid
\* opens in an open grid, every grid is closed once, paired charts are emitted
\* in a grid and full-width fragments outside one.
C7_LayoutWellFormed ==
    pc \in {"layout", "written"} =>
        /\ GridDepth(chart_blocks) >= 0
        /\ \A i \in 1..Len(chart_blocks) :
              chart_blocks[i].tag = "heading" =>
                  i < Len(chart_blocks) /\ chart_blocks[i + 1].tag = "open"
        /\ pc = "layout" =>
              /\ in_grid <=> GridDepth(chart_blocks) = 1
              /\ idx <= Len(sections) /\ sections[idx].flag = "None" => in_grid
        /\ pc = "written" =>
              /\ GridDepth(chart_blocks) = 0
              /\ NBlocks("open") = NFragments("grid-2")
              /\ NBlocks("heading") = NFragments("grid-2")
              /\ NBlocks("close") = NBlocks("open")
              /\ NBlocks("chart") = NFragments("None")
              /\ NBlocks("chart-full") = NFragments("full")

\* a report with all three sections' worth of grids: closed by a heading, by
\* a full-width fragment and by the end of the sequence
C7_Witness ==
    /\ pc = "written"
    /\ HasRows(v1_df)
    /\ NRows(v2_df) >= 2
    /\ NBlocks("open") = 4
    /\ NBlocks("chart-full") = 2

(***************************************************************************)
(* The claims about render_dashboard on a pair of tables, under            *)
(* SpecRender.                                                             *)
(***************************************************************************)
Rendered == pc \in {"layout", "written"}
\* a table that is present and has a row
NonEmpty(df) == df.k = "df" /\ Len(df.rows) > 0
AggregateLabels == <<"Total (31d)", "Daily Avg", "Charging Days", "Peak Day", "Supercharger">>
CardLabels == {cards[i] : i \in 1..Len(cards)}

\* C12: the five aggregate cards appear, in their fixed order, exactly when
\* the aggregate table is non-empty; the total-cost card appears, after them,
\* exactly when the session table is non-empty; and no cards container is
\* emitted when neither table is non-empty.
C12_CardSelection ==
    Rendered =>
        /\ NonEmpty(v1_df) <=> (\E i \in 1..Len(AggregateLabels) : AggregateLabels[i] \in CardLabels)
        /\ NonEmpty(v1_df) => Len(cards) >= 5 /\ SubSeq(cards, 1, 5) = AggregateLabels
        /\ NonEmpty(v2_df) <=> "SC Cost" \in CardLabels
        /\ NonEmpty(v2_df) => cards[Len(cards)] = "SC Cost"
        /\ Len(cards) = (IF NonEmpty(v1_df) THEN 5 ELSE 0) + (IF NonEmpty(v2_df) THEN 1 ELSE 0)
        /\ (~NonEmpty(v1_df) /\ ~NonEmpty(v2_df)) <=> cards_html = Str("")
        /\ cards_html # Str("") => cards_html.k = "div" /\ cards_html.children = cards

\* a report of both tables carries the six cards, the cost card last
C12_Witness ==
    /\ pc = "written"
    /\ NonEmpty(v1_df)
    /\ NonEmpty(v2_df)
    /\ cards = Append(AggregateLabels, "SC Cost")
    /\ cards_html # Str("")

\* the rows of the aggregate table on weekday d of ISO week w
CellRows(d, w) ==
    LET in_cell(row) == dayofweek(row.date) = d /\ isoweek(row.date) = w
    IN  SelectSeq(v1_df.rows, in_cell)
WeeksPresent == {isoweek(v1_df.rows[i].date) : i \in 1..Len(v1_df.rows)}
\* the sessions of the session table on weekday d in hour h
Bucket(d, h) ==
    {i \in 1..Len(v2_df.rows) :
        dayofweek(v2_df.rows[i].start \div 86400) = d /\ hour(v2_df.rows[i].start) = h}

\* C13: the session matrix of chart_heatmap has exactly 7 rows and 24
\* columns, each cell the count of sessions of its (weekday, hour); the
\* aggregate matrix of chart_v1_heatmap has exactly 7 rows, row i being
\* weekday i, and one column per ISO week present, each cell the sum of
\* total_kwh over the rows of its (weekday, week), 0 without rows.
C13_MatricesFullyPopulated ==
    Rendered =>
        /\ v2_pivot.k = "pivot" =>
              /\ Len(v2_pivot.values) = 7
              /\ \A d \in 0..6 :
                    /\ Len(v2_pivot.values[d + 1]) = 24
                    /\ \A h \in 0..23 :
                          v2_pivot.values[d + 1][h + 1] = Cardinality(Bucket(d, h))
        /\ v1_pivot.k = "pivot" =>
              /\ Len(v1_pivot.values) = 7
              /\ v1_pivot.index = Range(7)
              /\ Len(v1_pivot.columns) = Cardinality(WeeksPresent)
              /\ \A d \in 0..6 : \A j \in 1..Len(v1_pivot.columns) :
                    /\ v1_pivot.columns[j] \in WeeksPresent
                    /\ v1_pivot.values[d + 1][j].num =
                          total_kwh_sum(CellRows(d, v1_pivot.columns[j]))
                              * v1_pivot.values[d + 1][j].den

\* C14: on the single-session summary path the division cost/kwh is never
\* evaluated with kwh = 0.
C14_RateNeverDividesByZero ==
    (Rendered /\ rate.k = "rate") => rate.kwh # 0


====
